---- MODULE Spec2Model ----
(***************************************************************************)
(* Streaming import of a JSON array of city records into PostgreSQL        *)
(* (app/run.py, app/src/database.py).                                      *)
(*                                                                         *)
(* The program is single threaded.  Its state is the position of main(),   *)
(* the three in-memory buffers of insert_json_to_db and the four tables of *)
(* the database.  Every gateway call is one step, so that the states       *)
(* between two calls are visible.                                          *)
(*                                                                         *)
(* Columns: a states/countries row is <<id, name>> where name stands for   *)
(* the pair (code, name); a cities row is <<id, name, state_id,            *)
(* country_id>> where name stands for (name, latitude, longitude,          *)
(* wikiDataId).  None of the merged columns carries a constraint.          *)
(*                                                                         *)
(* A statement of the gateway fails exactly when it violates a constraint  *)
(* of the schema of create_db_structures (NOT NULL, FOREIGN KEY, an        *)
(* existing or a missing table); the gateway then rolls back and returns.  *)
(***************************************************************************)
EXTENDS Integers, Sequences, FiniteSets, TLC

\* Bounds of the model.
MaxLen == 3       \* records in the input file
MaxBuff == 2      \* largest buff_size tried

\* main() is run, and then run once more on the same file and database.
Runs == {1, 2}

\* JSON null / Python None in an id column.
NULL == 0

\* The values the fields of a record are drawn from: two city ids (so that an
\* id can repeat), one state id with two contradictory names and a null state
\* reference, one country and a null country reference.
CityIds == {1, 2}
CityNames == {"w"}
StateTuples == {<<1, "a">>, <<1, "b">>, <<NULL, "none">>}
CountryTuples == {<<1, "p">>, <<NULL, "none">>}

\* The items of the JSON array: flat records with the keys read at
\* run.py:92-104.
Records ==
    { [id |-> i, name |-> n,
       state_id |-> s[1], state_name |-> s[2],
       country_id |-> c[1], country_name |-> c[2]] :
         i \in CityIds, n \in CityNames, s \in StateTuples, c \in CountryTuples }

RECURSIVE SeqsUpTo(_, _)
SeqsUpTo(S, n) ==
    IF n = 0 THEN {<<>>}
    ELSE LET shorter == SeqsUpTo(S, n - 1)
         IN  shorter \cup { Append(q, x) : q \in {p \in shorter : Len(p) = n - 1}, x \in S }

VARIABLES
    pc,           \* position of main()
    run,          \* number of the current run of main()
    input,        \* the records of the JSON file, in file order
    buff_size,    \* flush threshold
    next,         \* number of records read from the stream in this run
    import_data,  \* the buffers: [states: set, countries: set, cities: sequence]
    exists,       \* names of the tables that exist in the database
    states,       \* rows of table states
    countries,    \* rows of table countries
    cities,       \* rows of table cities
    cities_tmp,   \* rows of table cities_tmp
    calls,        \* insert_values calls of this run, in call order
    first,        \* the tables as the first import_data_to_db left them
    city_num,     \* the count printed by number_of_cities
    trace,        \* gateway calls of this process, in order: [op, ok]
    txn,          \* transaction status of the connection
    csv,          \* the file written by import_to_csv
    interrupted   \* where the first process was interrupted, "no" if it was not

vars == <<pc, run, input, buff_size, next, import_data, exists, states,
          countries, cities, cities_tmp, calls, first, city_num, trace, txn,
          csv, interrupted>>

Ids(rows) == { r[1] : r \in rows }

EmptyBuffers == [states |-> {}, countries |-> {}, cities |-> <<>>]

\* ---------------------------------------------------------------------
\* Entity splitter (run.py:92-104)
StateOf(record) == <<record.state_id, record.state_name>>
CountryOf(record) == <<record.country_id, record.country_name>>
CityOf(record) == <<record.id, record.name, record.state_id, record.country_id>>

\* The keys the three tuples are built from, in the order of lines 92-104
StateKeys == {"state_id", "state_name"}
CountryKeys == {"country_id", "country_name"}
CityKeys == {"id", "name", "state_id", "country_id"}

\* record[key] finds every key it is asked for
WellFormed(record) == StateKeys \cup CountryKeys \cup CityKeys \subseteq DOMAIN record

\* A JSON object without one of its keys
Without(record, key) == [k \in DOMAIN record \ {key} |-> record[k]]

\* Items of the array that lack a key of the states tuple, of the countries
\* tuple or of the cities tuple
MalformedRecords ==
    { Without([id |-> 2, name |-> "w", state_id |-> 1, state_name |-> "a",
               country_id |-> 1, country_name |-> "p"], key) :
        key \in {"state_id", "country_name", "name"} }

\* The buffers when record[key] raises KeyError: the tuples built before the
\* failing one have been added
BuffersAtKeyError(record) ==
    IF ~(StateKeys \subseteq DOMAIN record) THEN import_data
    ELSE IF ~(CountryKeys \subseteq DOMAIN record)
    THEN [import_data EXCEPT !.states = import_data.states \cup {StateOf(record)}]
    ELSE [import_data EXCEPT !.states = import_data.states \cup {StateOf(record)},
                             !.countries = import_data.countries \cup {CountryOf(record)}]

\* Mutant of AfterKeyError: the error is caught and logged like a gateway
\* error, and import_data_to_db goes on
SwallowKeyError == "promote"

\* No function between record[key] and the top of main() catches KeyError
\* (func_status does not): the process ends with the exception
AfterKeyError == "crashed"

\* Mutant of AppendTuple: the tuple is put in front of the list
PrependTuple(buffer, t) == <<t>> \o buffer

\* set.add and list.append on the buffers
AddTuple(buffer, t) == buffer \cup {t}
AppendTuple(buffer, t) == Append(buffer, t)

\* ---------------------------------------------------------------------
\* Database gateway (database.py) over the schema of create_db_structures

\* Mutant of InsertRow: ON CONFLICT (id) DO UPDATE, the last row wins
InsertRowUpdating(rows, r) == { x \in rows : x[1] # r[1] } \cup {r}

\* INSERT ... VALUES row ON CONFLICT (id) DO NOTHING, one row
InsertRow(rows, r) == IF r[1] \in Ids(rows) THEN rows ELSE rows \cup {r}

\* ... for the rows of a sequence, in order
RECURSIVE InsertSeq(_, _)
InsertSeq(rows, data) ==
    IF data = <<>> THEN rows
    ELSE InsertSeq(InsertRow(rows, Head(data)), Tail(data))

\* id INTEGER NOT NULL: the statement raises on a row with a null id
NotNullViolated(batch) == \E r \in batch : r[1] = NULL

\* The orders in which a Python set can be iterated
Orders(S) ==
    { q \in [1..Cardinality(S) -> S] : \A i, j \in 1..Cardinality(S) : q[i] = q[j] => i = j }

\* Database.insert_values for a list: the possible contents of the table
\* after the call (execute_values; commit, or rollback on any exception).
InsertValuesList(table, rows, data) ==
    IF table \notin exists \/ NotNullViolated({ data[i] : i \in 1..Len(data) })
    THEN {rows}
    ELSE {InsertSeq(rows, data)}

\* The rows of a sequence that come before its first row with a null id
RECURSIVE BeforeNull(_)
BeforeNull(data) ==
    IF data = <<>> \/ Head(data)[1] = NULL THEN <<>>
    ELSE <<Head(data)>> \o BeforeNull(Tail(data))

\* Mutant of InsertValuesSet: the exception is swallowed without a rollback,
\* so the rows inserted before the failing row are committed by the next call
InsertValuesSetNoRollback(table, rows, data) ==
    IF table \notin exists THEN {rows}
    ELSE { InsertSeq(rows, BeforeNull(q)) : q \in Orders(data) }

\* Database.insert_values for a set: execute_values iterates the set in an
\* order the program does not fix.
InsertValuesSet(table, rows, data) ==
    IF table \notin exists \/ NotNullViolated(data)
    THEN {rows}
    ELSE { InsertSeq(rows, q) : q \in Orders(data) }

\* Mutant of ForeignKeysHold: cities created without its FOREIGN KEY clauses
ForeignKeysAbsent(r) == TRUE

\* FOREIGN KEY (state_id) REFERENCES states (id), FOREIGN KEY (country_id)
\* REFERENCES countries (id): a null reference is not checked.
ForeignKeysHold(r) ==
    /\ r[3] = NULL \/ r[3] \in Ids(states)
    /\ r[4] = NULL \/ r[4] \in Ids(countries)

\* Mutant of Promotable: the statement lacks ON CONFLICT (id) DO NOTHING and
\* adds every staged row
AllStaged == cities_tmp

\* The rows INSERT INTO cities SELECT * FROM cities_tmp ON CONFLICT (id)
\* DO NOTHING would add.
Promotable == { r \in cities_tmp : r[1] \notin Ids(cities) }

\* Mutant of InsertBySelectFrom: the staged rows are inserted one statement
\* per row, so that the rows that satisfy the foreign keys are kept
InsertBySelectFromRowwise ==
    IF {"cities", "cities_tmp"} \subseteq exists
    THEN cities \cup { r \in Promotable : ForeignKeysHold(r) }
    ELSE cities

\* Database.insert_by_select_from with the statement of
\* move_data_from_tmp_table: the content of cities after the call.
InsertBySelectFrom ==
    IF {"cities", "cities_tmp"} \subseteq exists /\ \A r \in Promotable : ForeignKeysHold(r)
    THEN cities \cup Promotable
    ELSE cities

\* The statement of move_data_from_tmp_table succeeds
PromotionAccepted ==
    {"cities", "cities_tmp"} \subseteq exists /\ \A r \in Promotable : ForeignKeysHold(r)

\* The entry of trace for one gateway call
Op(op, ok) == [op |-> op, ok |-> ok]

\* create_table, insert_values, insert_by_select_from: commit in the try
\* block, rollback in the except blocks
Settled == "idle"

\* select_all: execute and fetchall, with neither commit nor rollback; the
\* transaction psycopg2 opened for the statement stays open
LeftOpen == "open"

\* The five statements of create_db_structures, with their outcomes
CreateStatements ==
    << Op("create_table", "states" \notin exists),
       Op("create_table", "countries" \notin exists),
       Op("create_table", "cities" \notin exists),
       Op("create_table", TRUE),
       Op("create_table", TRUE) >>

\* Mutant of FreshStaging: no DROP TABLE, CREATE TABLE cities_tmp raises
\* DuplicateTable and the rows stay
StaleStaging == cities_tmp

\* DROP TABLE IF EXISTS cities_tmp; CREATE TABLE cities_tmp: its rows
FreshStaging == {}

\* The log entry of one insert_values call.
Call(table, data, kind, ok) ==
    [table |-> table, data |-> data, at |-> next, kind |-> kind, ok |-> ok]

\* ---------------------------------------------------------------------
Init ==
    /\ pc = "idle"
    /\ run = 1
    /\ input \in SeqsUpTo(Records, MaxLen)
    /\ buff_size \in 1..MaxBuff
    /\ next = 0
    /\ import_data = EmptyBuffers
    /\ exists = {}
    /\ states = {}
    /\ countries = {}
    /\ cities = {}
    /\ cities_tmp = {}
    /\ calls = <<>>
    /\ first = [done |-> FALSE, states |-> {}, countries |-> {}, cities |-> {}]
    /\ city_num = 0
    /\ trace = <<>>
    /\ txn = "idle"
    /\ csv = [header |-> <<>>, rows |-> <<>>]
    /\ interrupted = "no"

\* create_db_structures: CREATE TABLE of an existing table raises
\* DuplicateTable and is rolled back; cities_tmp is dropped and recreated.
CreateDbStructures ==
    /\ pc = "idle"
    /\ exists' = exists \cup {"states", "countries", "cities", "cities_tmp"}
    /\ cities_tmp' = FreshStaging
    /\ trace' = trace \o CreateStatements
    /\ txn' = Settled
    /\ pc' = "open"
    /\ UNCHANGED <<run, input, buff_size, next, import_data, states, countries,
                   cities, calls, first, city_num, csv, interrupted>>

\* insert_json_to_db, lines 86-89: open the file, create the buffers
OpenStream ==
    /\ pc = "open"
    /\ import_data' = EmptyBuffers
    /\ next' = 0
    /\ calls' = <<>>
    /\ pc' = "read"
    /\ UNCHANGED <<run, input, buff_size, exists, states, countries, cities,
                   cities_tmp, first, city_num, trace, txn, csv, interrupted>>

\* lines 91-104: the next record is split into the three buffers
ReadRecord ==
    /\ pc = "read"
    /\ next < Len(input)
    /\ WellFormed(input[next + 1])
    /\ LET record == input[next + 1]
       IN  import_data' =
             [states |-> AddTuple(import_data.states, StateOf(record)),
              countries |-> AddTuple(import_data.countries, CountryOf(record)),
              cities |-> AppendTuple(import_data.cities, CityOf(record))]
    /\ next' = next + 1
    /\ pc' = "chk_cities"
    /\ UNCHANGED <<run, input, buff_size, exists, states, countries, cities,
                   cities_tmp, calls, first, city_num, trace, txn, csv,
                   interrupted>>

\* Mutant of CitiesFull: the test is off by one
CitiesFullLate == Len(import_data.cities) = buff_size + 1

\* Mutant of StatesFull: the test is off by one
StatesFullLate == Cardinality(import_data.states) = buff_size + 1

\* The threshold tests of lines 109, 113, 117
CitiesFull == Len(import_data.cities) = buff_size
StatesFull == Cardinality(import_data.states) = buff_size
CountriesFull == Cardinality(import_data.countries) = buff_size

\* Mutant of StatesLeft: the end-of-stream test repeats the threshold test
StatesLeftAtThreshold == Cardinality(import_data.states) = buff_size

\* The end-of-stream tests of lines 122, 125, 128
CitiesLeft == Len(import_data.cities) # 0
StatesLeft == Cardinality(import_data.states) # 0
CountriesLeft == Cardinality(import_data.countries) # 0

\* Mutant of ClearStates: the buffer is not reset after the flush
KeepStates == import_data

\* Mutant of ClearCountries: the buffer is reset only after a flush that
\* succeeded, so that a failed batch is sent again
ClearCountriesIfStored ==
    IF NotNullViolated(import_data.countries) THEN import_data
    ELSE [import_data EXCEPT !.countries = {}]

\* Mutant of ClearCities: the flush of the cities buffer resets all buffers
ClearAll == EmptyBuffers

\* The buffers after a threshold flush (lines 112, 116, 120)
ClearCities == [import_data EXCEPT !.cities = <<>>]
ClearStates == [import_data EXCEPT !.states = {}]
ClearCountries == [import_data EXCEPT !.countries = {}]

\* One insert_values call on each buffer
SendCities(kind) ==
    /\ cities_tmp' \in InsertValuesList("cities_tmp", cities_tmp, import_data.cities)
    /\ calls' = Append(calls, Call("cities_tmp", import_data.cities, kind,
                          ~NotNullViolated({ import_data.cities[i] : i \in 1..Len(import_data.cities) })))
    /\ trace' = Append(trace, Op("insert_values",
                          ~NotNullViolated({ import_data.cities[i] : i \in 1..Len(import_data.cities) })))
    /\ txn' = Settled

SendStates(kind) ==
    /\ states' \in InsertValuesSet("states", states, import_data.states)
    /\ calls' = Append(calls, Call("states", import_data.states, kind,
                          ~NotNullViolated(import_data.states)))
    /\ trace' = Append(trace, Op("insert_values", ~NotNullViolated(import_data.states)))
    /\ txn' = Settled

SendCountries(kind) ==
    /\ countries' \in InsertValuesSet("countries", countries, import_data.countries)
    /\ calls' = Append(calls, Call("countries", import_data.countries, kind,
                          ~NotNullViolated(import_data.countries)))
    /\ trace' = Append(trace, Op("insert_values", ~NotNullViolated(import_data.countries)))
    /\ txn' = Settled

\* lines 109-112
CheckCities ==
    /\ pc = "chk_cities"
    /\ IF CitiesFull
       THEN SendCities("threshold") /\ import_data' = ClearCities
       ELSE UNCHANGED <<cities_tmp, calls, import_data, trace, txn>>
    /\ pc' = "chk_states"
    /\ UNCHANGED <<run, input, buff_size, next, exists, states, countries,
                   cities, first, city_num, csv, interrupted>>

\* lines 113-116
CheckStates ==
    /\ pc = "chk_states"
    /\ IF StatesFull
       THEN SendStates("threshold") /\ import_data' = ClearStates
       ELSE UNCHANGED <<states, calls, import_data, trace, txn>>
    /\ pc' = "chk_countries"
    /\ UNCHANGED <<run, input, buff_size, next, exists, countries, cities,
                   cities_tmp, first, city_num, csv, interrupted>>

\* lines 117-120
CheckCountries ==
    /\ pc = "chk_countries"
    /\ IF CountriesFull
       THEN SendCountries("threshold") /\ import_data' = ClearCountries
       ELSE UNCHANGED <<countries, calls, import_data, trace, txn>>
    /\ pc' = "read"
    /\ UNCHANGED <<run, input, buff_size, next, exists, states, cities,
                   cities_tmp, first, city_num, csv, interrupted>>

\* lines 122-124: the stream is exhausted
FinalCities ==
    /\ pc = "read"
    /\ next = Len(input)
    /\ IF CitiesLeft
       THEN SendCities("end")
       ELSE UNCHANGED <<cities_tmp, calls, trace, txn>>
    /\ pc' = "end_states"
    /\ UNCHANGED <<run, input, buff_size, next, import_data, exists, states,
                   countries, cities, first, city_num, csv, interrupted>>

\* lines 125-127
FinalStates ==
    /\ pc = "end_states"
    /\ IF StatesLeft
       THEN SendStates("end")
       ELSE UNCHANGED <<states, calls, trace, txn>>
    /\ pc' = "end_countries"
    /\ UNCHANGED <<run, input, buff_size, next, import_data, exists, countries,
                   cities, cities_tmp, first, city_num, csv, interrupted>>

\* lines 128-130
FinalCountries ==
    /\ pc = "end_countries"
    /\ IF CountriesLeft
       THEN SendCountries("end")
       ELSE UNCHANGED <<countries, calls, trace, txn>>
    /\ pc' = "promote"
    /\ UNCHANGED <<run, input, buff_size, next, import_data, exists, states,
                   cities, cities_tmp, first, city_num, csv, interrupted>>

\* Number of insert_by_select_from calls of this process
Promotions == Cardinality({ i \in DOMAIN trace : trace[i].op = "insert_by_select_from" })

\* Mutant of AfterPromotion: move_data_from_tmp_table is called a second time
PromoteOnceMore == IF Promotions = 0 THEN "promote" ELSE "export"

\* import_data_to_db returns to main() after move_data_from_tmp_table,
\* whatever the outcome of the statement (the gateway swallows the error)
AfterPromotion == "export"

\* move_data_from_tmp_table
MoveDataFromTmpTable ==
    /\ pc = "promote"
    /\ cities' = InsertBySelectFrom
    /\ first' = IF first.done THEN first
                ELSE [done |-> TRUE, states |-> states, countries |-> countries,
                      cities |-> cities']
    /\ trace' = Append(trace, Op("insert_by_select_from", PromotionAccepted))
    /\ txn' = Settled
    /\ pc' = AfterPromotion
    /\ UNCHANGED <<run, input, buff_size, next, import_data, exists, states,
                   countries, cities_tmp, calls, city_num, csv, interrupted>>

\* The names main() asks number_of_cities for
QueryState == "a"
QueryCountry == "p"

\* The cities the joins and the WHERE clause of select_number_of_cities keep
Matching(country_name, state_name) ==
    { ct \in cities :
        /\ \E s \in states : ct[3] = s[1] /\ s[2] = state_name
        /\ \E ctr \in countries : ct[4] = ctr[1] /\ ctr[2] = country_name }

\* Mutant of CountRows: a grouped count, which has no row when nothing matches
CountRowsGrouped(matches) ==
    IF matches = {} THEN <<>> ELSE << <<Cardinality(matches)>> >>

\* SELECT COUNT(ct.id) without GROUP BY: always one row
CountRows(matches) == << <<Cardinality(matches)>> >>

\* select_number_of_cities: the pair (column names, rows) of select_all
SelectNumberOfCities(country_name, state_name) ==
    [columns |-> <<"number_of_cities">>,
     rows |-> CountRows(Matching(country_name, state_name))]

\* number_of_cities: select, import_to_csv, then data[1][0][0] is printed;
\* an exception of select_all or of the indexing ends main()
NumberOfCities ==
    /\ pc = "export"
    /\ trace' = Append(trace, Op("select_all", {"cities", "states", "countries"} \subseteq exists))
    /\ IF {"cities", "states", "countries"} \subseteq exists
       THEN LET data == SelectNumberOfCities(QueryCountry, QueryState)
            IN  /\ txn' = LeftOpen
                /\ csv' = [header |-> data.columns, rows |-> data.rows]
                /\ IF data.rows # <<>>
                   THEN city_num' = data.rows[1][1] /\ pc' = "done"
                   ELSE city_num' = city_num /\ pc' = "crashed"
       ELSE /\ txn' = "aborted"
            /\ pc' = "crashed"
            /\ UNCHANGED <<csv, city_num>>
    /\ UNCHANGED <<run, input, buff_size, next, import_data, exists, states,
                   countries, cities, cities_tmp, calls, first, interrupted>>

\* The script is started again on the same file and the same database.
Rerun ==
    /\ pc = "done"
    /\ run + 1 \in Runs
    /\ run' = run + 1
    /\ pc' = "idle"
    /\ trace' = <<>>
    /\ txn' = "idle"
    /\ UNCHANGED <<input, buff_size, next, import_data, exists, states,
                   countries, cities, cities_tmp, calls, first, city_num, csv,
                   interrupted>>

\* The phase of import_data_to_db a position of main() belongs to
Phase(at) ==
    CASE at \in {"idle", "open"} -> "start"
      [] at = "export" -> "promoted"
      [] OTHER -> "streaming"

\* The first process is killed between two gateway calls (its memory is
\* lost, the server rolls back what the connection left open) and the script
\* is started again on the same file and the same database.
Interrupt ==
    /\ pc \notin {"done", "crashed"}
    /\ run = 1
    /\ run + 1 \in Runs
    /\ run' = run + 1
    /\ interrupted' = Phase(pc)
    /\ pc' = "idle"
    /\ trace' = <<>>
    /\ txn' = "idle"
    /\ next' = 0
    /\ import_data' = EmptyBuffers
    /\ calls' = <<>>
    /\ UNCHANGED <<input, buff_size, exists, states, countries, cities,
                   cities_tmp, first, city_num, csv>>

Next ==
    \/ CreateDbStructures
    \/ OpenStream
    \/ ReadRecord
    \/ CheckCities
    \/ CheckStates
    \/ CheckCountries
    \/ FinalCities
    \/ FinalStates
    \/ FinalCountries
    \/ MoveDataFromTmpTable
    \/ NumberOfCities
    \/ Rerun

Spec == Init /\ [][Next]_vars

\* The same program, with an interrupt of the first process, over the inputs
\* of fewer than MaxLen records.
InitInterrupted == Init /\ Len(input) < MaxLen

NextInterrupted == Next \/ Interrupt

SpecInterrupted == InitInterrupted /\ [][NextInterrupted]_vars

\* ---------------------------------------------------------------------
\* The same program over files whose items may lack a key

\* lines 91-104: record[key] raises KeyError at the next record; the error
\* leaves insert_json_to_db, import_data_to_db and main()
RecordMissingField ==
    /\ pc = "read"
    /\ next < Len(input)
    /\ ~WellFormed(input[next + 1])
    /\ import_data' = BuffersAtKeyError(input[next + 1])
    /\ pc' = AfterKeyError
    /\ UNCHANGED <<run, input, buff_size, next, exists, states, countries,
                   cities, cities_tmp, calls, first, city_num, trace, txn, csv,
                   interrupted>>

\* The city an earlier import of a one-record file has left in the database
PriorCity == <<2, "w", NULL, NULL>>

\* The files of fewer than MaxLen items, well-formed or not, and a database
\* that is empty or holds what the import of the file [PriorCity] left
InitMalformed ==
    /\ pc = "idle"
    /\ run = 1
    /\ input \in { q \in SeqsUpTo(Records \cup MalformedRecords, MaxLen) : Len(q) < MaxLen }
    /\ buff_size \in 1..MaxBuff
    /\ next = 0
    /\ import_data = EmptyBuffers
    /\ \E prior \in BOOLEAN :
         /\ exists = IF prior THEN {"states", "countries", "cities", "cities_tmp"} ELSE {}
         /\ cities = IF prior THEN {PriorCity} ELSE {}
         /\ cities_tmp = IF prior THEN {PriorCity} ELSE {}
    /\ states = {}
    /\ countries = {}
    /\ calls = <<>>
    /\ first = [done |-> FALSE, states |-> {}, countries |-> {}, cities |-> {}]
    /\ city_num = 0
    /\ trace = <<>>
    /\ txn = "idle"
    /\ csv = [header |-> <<>>, rows |-> <<>>]
    /\ interrupted = "no"

NextMalformed == Next \/ RecordMissingField

SpecMalformed == InitMalformed /\ [][NextMalformed]_vars

\* ---------------------------------------------------------------------
\* The Staging Promoter alone, run twice over any content of the database

\* The rows a cities table can hold
CityRows ==
    { <<i, n, s, c>> : i \in CityIds, n \in CityNames,
                       s \in Ids(StateTuples), c \in Ids(CountryTuples) }

\* PRIMARY KEY (id): no two rows of a table share an id
Keyed(rows) == \A r, q \in rows : r[1] = q[1] => r = q

\* The contents a table with a primary key can have
KeyedTables(rows) == { t \in SUBSET rows : Keyed(t) /\ NULL \notin Ids(t) }

\* The database as earlier imports of any files may have left it, at the
\* call of move_data_from_tmp_table; the stream plays no part.
InitPromotion ==
    /\ pc = "promote"
    /\ run = 1
    /\ input = <<>>
    /\ buff_size = 1
    /\ next = 0
    /\ import_data = EmptyBuffers
    /\ exists = {"states", "countries", "cities", "cities_tmp"}
    /\ states \in KeyedTables(StateTuples)
    /\ countries \in KeyedTables(CountryTuples)
    /\ cities \in { t \in KeyedTables(CityRows) : \A r \in t : ForeignKeysHold(r) }
    /\ cities_tmp \in KeyedTables(CityRows)
    /\ calls = <<>>
    /\ first = [done |-> FALSE, states |-> {}, countries |-> {}, cities |-> {}]
    /\ city_num = 0
    /\ trace = <<>>
    /\ txn = "idle"
    /\ csv = [header |-> <<>>, rows |-> <<>>]
    /\ interrupted = "no"

\* move_data_from_tmp_table is called once more on the same staged rows
PromoteAgain ==
    /\ pc = "export"
    /\ Promotions = 1
    /\ cities' = InsertBySelectFrom
    /\ trace' = Append(trace, Op("insert_by_select_from", PromotionAccepted))
    /\ txn' = Settled
    /\ pc' = "done"
    /\ UNCHANGED <<run, input, buff_size, next, import_data, exists, states,
                   countries, cities_tmp, calls, first, city_num, csv,
                   interrupted>>

NextPromotion == MoveDataFromTmpTable \/ PromoteAgain

SpecPromotion == InitPromotion /\ [][NextPromotion]_vars

\* =====================================================================
\* Properties

\* The import of the current run has returned.
Imported == pc \in {"export", "done"}

\* insert_json_to_db of the current run has returned.
Streamed == pc \in {"promote", "export", "done"}

InputIndices == 1..Len(input)

\* C1: after import_data_to_db has run to completion on initially empty
\* tables, the ids of the rows of cities are exactly the city ids of the
\* input records.
C1_CityIdsEqualInput ==
    (run = 1 /\ Imported) => Ids(cities) = { input[i].id : i \in InputIndices }

\* C2: a second run of the import on the same input leaves states,
\* countries and cities exactly as the first run left them, at every moment
\* of the second run.
C2_SecondRunChangesNothing ==
    first.done =>
        /\ states = first.states
        /\ countries = first.countries
        /\ cities = first.cities

\* C2 witness: the second run has finished after threshold flushes that each
\* met rows already stored, and cities is not empty.
C2_Witness ==
    /\ run = 2
    /\ pc = "done"
    /\ cities # {}
    /\ states # {}
    /\ \E i \in DOMAIN calls : calls[i].kind = "threshold" /\ calls[i].ok

\* C3: in every state, every non-null state_id of a row of cities is the id
\* of a row of states and every non-null country_id is the id of a row of
\* countries.
C3_ReferentialIntegrity ==
    \A r \in cities :
        /\ r[3] # NULL => r[3] \in Ids(states)
        /\ r[4] # NULL => r[4] \in Ids(countries)

\* C3 witness: cities holds a row that references a state and a country,
\* next to a row with a null state reference.
C3_Witness ==
    /\ \E r \in cities : r[3] # NULL /\ r[4] # NULL
    /\ \E r \in cities : r[3] = NULL

\* C4: after the import, every non-null state_id of an input record is the
\* id of exactly one row of states, and every non-null country_id the id of
\* exactly one row of countries, whatever the threshold.
C4_OneRowPerSharedId ==
    Imported =>
        \A i \in InputIndices :
            /\ input[i].state_id # NULL =>
                 Cardinality({ s \in states : s[1] = input[i].state_id }) = 1
            /\ input[i].country_id # NULL =>
                 Cardinality({ c \in countries : c[1] = input[i].country_id }) = 1

\* C5: the states buffer holds at most one tuple per state_id and the
\* countries buffer at most one tuple per country_id.
C5_BuffersKeyedById ==
    /\ \A t, u \in import_data.states : t[1] = u[1] => t = u
    /\ \A t, u \in import_data.countries : t[1] = u[1] => t = u

\* ---------------------------------------------------------------------
\* The insert_values calls of the current run

CallsOn(table) == SelectSeq(calls, LAMBDA c : c.table = table)

\* Number of calls of one kind on a table
Count(table, kind) ==
    Cardinality({ i \in DOMAIN calls : calls[i].table = table /\ calls[i].kind = kind })

RECURSIVE Concat(_)
Concat(batches) ==
    IF batches = <<>> THEN <<>> ELSE Head(batches).data \o Concat(Tail(batches))

\* The city tuples of the first n input records, in input order
CityTuples(n) == [i \in 1..n |-> CityOf(input[i])]

\* The end-of-stream test on the cities buffer has been passed in this run.
CitiesDone == pc \in {"end_states", "end_countries", "promote", "export", "done"}

\* C6 as stated: with T, T+1 and T-1 input records there are 1, 2 and 0
\* threshold flushes of the cities buffer, plus one end-of-stream flush
\* exactly when a remainder is left.
C6_BoundaryAsStated ==
    CitiesDone =>
        /\ Len(input) = buff_size => Count("cities_tmp", "threshold") = 1
        /\ Len(input) = buff_size + 1 => Count("cities_tmp", "threshold") = 2
        /\ Len(input) = buff_size - 1 => Count("cities_tmp", "threshold") = 0
        /\ Count("cities_tmp", "end") = IF Len(input) % buff_size # 0 THEN 1 ELSE 0

\* C6 amended: with T, T+1 and T-1 input records there are 1, 1 and 0
\* threshold flushes of the cities buffer (2 for T+1 records only when
\* T = 1), plus one end-of-stream flush exactly when a remainder is left; in
\* general Len(input) \div T threshold flushes.
C6_Boundary ==
    CitiesDone =>
        /\ Len(input) = buff_size => Count("cities_tmp", "threshold") = 1
        /\ Len(input) = buff_size + 1 =>
             Count("cities_tmp", "threshold") = IF buff_size = 1 THEN 2 ELSE 1
        /\ Len(input) = buff_size - 1 => Count("cities_tmp", "threshold") = 0
        /\ Count("cities_tmp", "threshold") = Len(input) \div buff_size
        /\ Count("cities_tmp", "end") = IF Len(input) % buff_size # 0 THEN 1 ELSE 0

\* C6 witness: T+1 records with T = 2 gave one threshold flush and one
\* end-of-stream flush of the cities buffer.
C6_Witness ==
    /\ CitiesDone
    /\ buff_size = 2
    /\ Len(input) = buff_size + 1
    /\ Count("cities_tmp", "threshold") = 1
    /\ Count("cities_tmp", "end") = 1

\* C7: no insert_values call carries an empty batch; at the end of the
\* stream each buffer is flushed once if it is not empty and not at all if
\* it is empty, whatever the threshold; and when insert_json_to_db has
\* returned, the city, state and country tuple of every input record has
\* been passed to the gateway.
C7_EndOfStreamFlush ==
    /\ \A i \in DOMAIN calls :
         IF calls[i].table = "cities_tmp" THEN calls[i].data # <<>> ELSE calls[i].data # {}
    /\ Streamed =>
         /\ Count("cities_tmp", "end") = IF import_data.cities # <<>> THEN 1 ELSE 0
         /\ Count("states", "end") = IF import_data.states # {} THEN 1 ELSE 0
         /\ Count("countries", "end") = IF import_data.countries # {} THEN 1 ELSE 0
         /\ \A k \in InputIndices :
              /\ \E i \in DOMAIN calls :
                   /\ calls[i].table = "cities_tmp"
                   /\ \E j \in DOMAIN calls[i].data : calls[i].data[j] = CityOf(input[k])
              /\ \E i \in DOMAIN calls :
                   calls[i].table = "states" /\ StateOf(input[k]) \in calls[i].data
              /\ \E i \in DOMAIN calls :
                   calls[i].table = "countries" /\ CountryOf(input[k]) \in calls[i].data

\* C7 witness: the stream ended below the threshold with a cities and a
\* countries remainder and an empty states buffer, after threshold flushes.
C7_Witness ==
    /\ pc = "promote"
    /\ import_data.cities # <<>>
    /\ Len(import_data.cities) < buff_size
    /\ import_data.states = {}
    /\ import_data.countries # {}
    /\ Count("cities_tmp", "threshold") > 0
    /\ Count("states", "end") = 0

\* No two records of the input are equal.
PairwiseDistinct == \A i, j \in InputIndices : input[i] = input[j] => i = j

\* The tuples of a batch, for a list and for a set
TuplesOf(c) ==
    IF c.table = "cities_tmp" THEN { c.data[k] : k \in DOMAIN c.data } ELSE c.data

\* The number of records that had been read when the accumulator of call i
\* was last flushed before call i
PreviousAt(i) ==
    LET earlier == { j \in 1..(i - 1) : calls[j].table = calls[i].table }
    IN  IF earlier = {} THEN 0
        ELSE calls[CHOOSE j \in earlier : \A k \in earlier : k <= j].at

\* C8 as stated: over pairwise distinct records, no tuple is passed to the
\* gateway in two insert_values calls on the same accumulator.
C8_NoTupleSentTwice ==
    PairwiseDistinct =>
        \A i, j \in DOMAIN calls :
            (i < j /\ calls[i].table = calls[j].table) =>
                TuplesOf(calls[i]) \cap TuplesOf(calls[j]) = {}

\* C8 amended: every insert_values call passes exactly the tuples that the
\* records read since the previous call on the same accumulator put into
\* it; a tuple is passed again only when such a later record carries it
\* again.
C8_EachBatchSentOnce ==
    \A i \in DOMAIN calls :
        LET from == PreviousAt(i)
            to == calls[i].at
        IN  /\ from < to
            /\ calls[i].table = "cities_tmp" =>
                 calls[i].data = [k \in 1..(to - from) |-> CityOf(input[from + k])]
            /\ calls[i].table = "states" =>
                 calls[i].data = { StateOf(input[k]) : k \in (from + 1)..to }
            /\ calls[i].table = "countries" =>
                 calls[i].data = { CountryOf(input[k]) : k \in (from + 1)..to }

\* C8 witness: over pairwise distinct records a state tuple has been passed
\* in two calls, the second after a later record carried it again.
C8_Witness ==
    /\ PairwiseDistinct
    /\ \E i, j \in DOMAIN calls :
         /\ i < j
         /\ calls[i].table = "states"
         /\ calls[j].table = "states"
         /\ calls[i].data \cap calls[j].data # {}

\* C9: the threshold step of one accumulator flushes exactly when that
\* accumulator's own size equals the threshold, sends and clears that
\* accumulator alone, and leaves the other two buffers and the tables they
\* feed unchanged.
C9_PerAccumulatorFlush ==
    [][ /\ pc = "chk_cities" =>
             /\ import_data'.states = import_data.states
             /\ import_data'.countries = import_data.countries
             /\ states' = states /\ countries' = countries
             /\ IF Len(import_data.cities) = buff_size
                THEN /\ import_data'.cities = <<>>
                     /\ calls' = Append(calls, Call("cities_tmp", import_data.cities,
                                                    "threshold", calls'[Len(calls')].ok))
                ELSE import_data'.cities = import_data.cities /\ calls' = calls
        /\ pc = "chk_states" =>
             /\ import_data'.cities = import_data.cities
             /\ import_data'.countries = import_data.countries
             /\ cities_tmp' = cities_tmp /\ countries' = countries
             /\ IF Cardinality(import_data.states) = buff_size
                THEN /\ import_data'.states = {}
                     /\ calls' = Append(calls, Call("states", import_data.states,
                                                    "threshold", calls'[Len(calls')].ok))
                ELSE import_data'.states = import_data.states /\ calls' = calls
        /\ pc = "chk_countries" =>
             /\ import_data'.cities = import_data.cities
             /\ import_data'.states = import_data.states
             /\ cities_tmp' = cities_tmp /\ states' = states
             /\ IF Cardinality(import_data.countries) = buff_size
                THEN /\ import_data'.countries = {}
                     /\ calls' = Append(calls, Call("countries", import_data.countries,
                                                    "threshold", calls'[Len(calls')].ok))
                ELSE import_data'.countries = import_data.countries /\ calls' = calls
      ]_vars

\* C9 witness: the cities buffer has just been flushed and cleared while the
\* states and countries buffers still hold tuples below the threshold.
C9_Witness ==
    /\ pc = "chk_states"
    /\ import_data.cities = <<>>
    /\ import_data.states # {}
    /\ import_data.countries # {}
    /\ Cardinality(import_data.states) < buff_size
    /\ calls # <<>>
    /\ calls[Len(calls)].table = "cities_tmp"
    /\ calls[Len(calls)].at = next

\* The order of the three threshold tests within one record
Rank(table) == CASE table = "cities_tmp" -> 1 [] table = "states" -> 2 [] table = "countries" -> 3

\* C10: the city batches sent so far, concatenated in call order and
\* followed by the cities buffer, are the city tuples of the records read so
\* far in input order; when the stream is done the batches alone are the
\* city tuples of the whole input; calls are issued in the order of the
\* records at which they were due, and within one record in the order
\* cities, states, countries.
C10_StreamOrder ==
    /\ pc \in {"read", "chk_cities", "chk_states", "chk_countries"} =>
         Concat(CallsOn("cities_tmp")) \o import_data.cities = CityTuples(next)
    /\ CitiesDone => Concat(CallsOn("cities_tmp")) = CityTuples(Len(input))
    /\ \A i, j \in DOMAIN calls :
         i < j =>
            /\ calls[i].at <= calls[j].at
            /\ (calls[i].at = calls[j].at /\ calls[i].kind = calls[j].kind) =>
                 Rank(calls[i].table) < Rank(calls[j].table)

\* C10 witness: three records with different city tuples went out in two
\* city batches, with a states flush in between.
C10_Witness ==
    /\ Streamed
    /\ Len(input) = 3
    /\ CityOf(input[1]) # CityOf(input[2])
    /\ CityOf(input[2]) # CityOf(input[3])
    /\ Len(CallsOn("cities_tmp")) = 2
    /\ \E i, j, k \in DOMAIN calls :
         /\ i < j /\ j < k
         /\ calls[i].table = "cities_tmp"
         /\ calls[j].table = "states"
         /\ calls[k].table = "cities_tmp"

\* ---------------------------------------------------------------------
\* The gateway calls of the current process

\* Some call of the kind has been made; some call of the kind has failed
Called(op) == \E i \in DOMAIN trace : trace[i].op = op
Failed(op) == \E i \in DOMAIN trace : trace[i].op = op /\ ~trace[i].ok

\* C11: in every run the promoter is executed exactly once, after the
\* schema step, after the stream is exhausted and after the end-of-stream
\* flush of every non-empty buffer; no bulk insert and no second promotion
\* follows it, and the export query runs only after it.
C11_PromoterOnceAfterStaging ==
    /\ Promotions <= 1
    /\ Imported => Promotions = 1
    /\ \A i \in DOMAIN trace :
         trace[i].op = "insert_by_select_from" =>
            /\ \E j \in 1..(i - 1) : trace[j].op = "create_table"
            /\ \A j \in DOMAIN trace :
                 j > i => trace[j].op \notin {"insert_values", "insert_by_select_from", "create_table"}
            /\ next = Len(input)
            /\ Count("cities_tmp", "end") = IF import_data.cities # <<>> THEN 1 ELSE 0
            /\ Count("states", "end") = IF import_data.states # {} THEN 1 ELSE 0
            /\ Count("countries", "end") = IF import_data.countries # {} THEN 1 ELSE 0
    /\ \A j \in DOMAIN trace :
         trace[j].op = "select_all" =>
            \E i \in 1..(j - 1) : trace[i].op = "insert_by_select_from"

\* C11 witness: a run has ended after threshold flushes, three end-of-stream
\* flushes, one promotion and the export query.
C11_Witness ==
    /\ pc = "done"
    /\ Promotions = 1
    /\ Called("select_all")
    /\ Count("cities_tmp", "threshold") > 0
    /\ Count("cities_tmp", "end") = 1
    /\ Count("states", "end") = 1
    /\ Count("countries", "end") = 1

\* C12: whenever move_data_from_tmp_table is about to run, every non-null
\* state_id and country_id of a row of cities_tmp is the id of a row of
\* states and of countries.
C12_PromoterPrecondition ==
    pc = "promote" => \A r \in cities_tmp : ForeignKeysHold(r)

\* C13: no city id is in two rows of cities, and a second run of the
\* promoter on the same staged rows leaves cities as the first run left it.
C13_PromotionIdempotent ==
    /\ Keyed(cities)
    /\ (pc = "done" /\ Promotions = 2) => cities = first.cities

\* C13 witness: the promoter has run twice; the first run added a staged row
\* and skipped a staged row whose id cities already held with other content.
C13_Witness ==
    /\ pc = "done"
    /\ Promotions = 2
    /\ \A i \in DOMAIN trace : trace[i].ok
    /\ cities \cap cities_tmp # {}
    /\ \E r \in cities, q \in cities_tmp : r[1] = q[1] /\ r # q

\* C14: if the statement of move_data_from_tmp_table fails, the run neither
\* goes on to the export query nor ends as a success.
C14_PromoterFailureFatal ==
    Failed("insert_by_select_from") => (~Called("select_all") /\ pc # "done")

\* The rows of the four tables
Tables == <<states, countries, cities, cities_tmp>>

\* C15: after every call of a gateway method the connection has no open or
\* aborted transaction, and a call whose statement failed has left the
\* tables unchanged.
C15_CommitOrRollback ==
    [][ Len(trace') > Len(trace) =>
            /\ txn' = "idle"
            /\ ~trace'[Len(trace')].ok => Tables' = Tables
      ]_vars

\* ---------------------------------------------------------------------
\* What one uninterrupted run on an empty database leaves, computed from the
\* input alone

\* The batches of a deduplicating buffer for the tuples of the records
RECURSIVE SetBatches(_, _)
SetBatches(tuples, buffer) ==
    IF tuples = <<>> THEN (IF buffer = {} THEN <<>> ELSE <<buffer>>)
    ELSE LET filled == buffer \cup {Head(tuples)}
         IN  IF Cardinality(filled) = buff_size
             THEN <<filled>> \o SetBatches(Tail(tuples), {})
             ELSE SetBatches(Tail(tuples), filled)

\* The batches of the list buffer
RECURSIVE ListBatches(_, _)
ListBatches(tuples, buffer) ==
    IF tuples = <<>> THEN (IF buffer = <<>> THEN <<>> ELSE <<buffer>>)
    ELSE LET filled == Append(buffer, Head(tuples))
         IN  IF Len(filled) = buff_size
             THEN <<filled>> \o ListBatches(Tail(tuples), <<>>)
             ELSE ListBatches(Tail(tuples), filled)

\* The contents a table can have after the batches, from the contents in
\* candidates
RECURSIVE StoredBy(_, _, _)
StoredBy(table, candidates, batches) ==
    IF batches = <<>> THEN candidates
    ELSE StoredBy(table,
                  UNION { InsertValuesSet(table, rows, Head(batches)) : rows \in candidates },
                  Tail(batches))

RECURSIVE StagedBy(_, _)
StagedBy(candidates, batches) ==
    IF batches = <<>> THEN candidates
    ELSE StagedBy(UNION { InsertValuesList("cities_tmp", rows, Head(batches)) : rows \in candidates },
                  Tail(batches))

\* cities after the promotion of staged into an empty table, next to the
\* rows S of states and C of countries
PromotedNextTo(staged, S, C) ==
    IF \A r \in staged : /\ r[3] = NULL \/ r[3] \in Ids(S)
                         /\ r[4] = NULL \/ r[4] \in Ids(C)
    THEN staged ELSE {}

UninterruptedOutcomes ==
    LET S_all == StoredBy("states", {{}},
                     SetBatches([i \in InputIndices |-> StateOf(input[i])], {}))
        C_all == StoredBy("countries", {{}},
                     SetBatches([i \in InputIndices |-> CountryOf(input[i])], {}))
        staged_all == StagedBy({{}}, ListBatches(CityTuples(Len(input)), <<>>))
    IN  { [states |-> S, countries |-> C, cities |-> PromotedNextTo(staged, S, C)] :
            S \in S_all, C \in C_all, staged \in staged_all }

\* A batch written as a whole, or not at all: the table is unchanged, or it
\* has kept its rows and holds every id of the batch
WhollyOrNot(before, after, batch) ==
    \/ after = before
    \/ before \subseteq after /\ Ids(batch) \subseteq Ids(after)

C16_PartialState ==
    /\ interrupted = "streaming"
    /\ pc = "idle"
    /\ states # {}
    /\ cities_tmp # {}
    /\ cities = {}

\* C17: number_of_cities never ends in an exception, and when no city
\* matches the pair of names the result set it obtains, exports and prints
\* is the one row with the count 0.
C17_EmptyResultDefined ==
    /\ pc # "crashed"
    /\ (pc = "done" /\ Matching(QueryCountry, QueryState) = {}) =>
         /\ csv = [header |-> <<"number_of_cities">>, rows |-> << <<0>> >>]
         /\ city_num = 0

\* C17 witness: the export has run over a cities table that holds rows, none
\* of which matches the names asked for.
C17_Witness ==
    /\ pc = "done"
    /\ cities # {}
    /\ Matching(QueryCountry, QueryState) = {}
    /\ csv.rows = << <<0>> >>

\* Some record of the input has a null state_id or a null country_id
NullReferences ==
    \E i \in InputIndices : input[i].state_id = NULL \/ input[i].country_id = NULL

\* C18: a record with a null state_id or country_id is split like any other
\* (its state, country and city tuples are sent to the gateway), and after
\* the import of an input with such records every city of the input is in
\* cities and every state and country with an id is in its table.
C18_NullReferencesTolerated ==
    /\ (Streamed /\ NullReferences) =>
         \A i \in InputIndices :
            /\ \E c \in DOMAIN calls :
                 calls[c].table = "states" /\ StateOf(input[i]) \in calls[c].data
            /\ \E c \in DOMAIN calls :
                 calls[c].table = "countries" /\ CountryOf(input[i]) \in calls[c].data
            /\ \E c \in DOMAIN calls :
                 calls[c].table = "cities_tmp" /\ CityOf(input[i]) \in TuplesOf(calls[c])
    /\ (Imported /\ NullReferences) =>
         \A i \in InputIndices :
            /\ input[i].id \in Ids(cities)
            /\ input[i].state_id # NULL => input[i].state_id \in Ids(states)
            /\ input[i].country_id # NULL => input[i].country_id \in Ids(countries)

\* C19: when streaming starts cities_tmp exists and is empty, and from then
\* on every row of cities_tmp is a tuple that an insert_values call of this
\* run passed, so that the promotion moves rows of this run only.
C19_StagingFresh ==
    /\ pc = "open" => ("cities_tmp" \in exists /\ cities_tmp = {})
    /\ pc \notin {"idle", "open"} =>
         \A r \in cities_tmp :
            \E c \in DOMAIN calls :
                calls[c].table = "cities_tmp" /\ r \in TuplesOf(calls[c])

\* C19 witness: the second run is about to stream, after the first run
\* staged and promoted rows that create_db_structures has now dropped.
C19_Witness ==
    /\ run = 2
    /\ pc = "open"
    /\ first.cities # {}
    /\ cities_tmp = {}

\* A threshold flush that failed
FailedThreshold(i) == calls[i].kind = "threshold" /\ ~calls[i].ok

\* C20 as stated: the run never ends in an exception, and no tuple of a
\* failed threshold batch is passed in a later call of the run.
C20_FailedBatchNeverResent ==
    /\ pc # "crashed"
    /\ \A i, j \in DOMAIN calls :
         (i < j /\ FailedThreshold(i) /\ calls[j].table = calls[i].table) =>
            TuplesOf(calls[i]) \cap TuplesOf(calls[j]) = {}

\* The tuple of record k for the accumulator of a table
TupleFor(table, k) ==
    CASE table = "cities_tmp" -> CityOf(input[k])
      [] table = "states" -> StateOf(input[k])
      [] table = "countries" -> CountryOf(input[k])

\* C20 amended: a threshold flush whose insert fails leaves the table
\* unchanged and the connection settled, the accumulator is cleared and the
\* run goes on to its next step; a tuple of the failed batch is passed again
\* only in a batch to which a record read after the failed flush added it;
\* and the run never ends in an exception and can always take its next step
\* until the export is done.
C20_FailedFlushSwallowed ==
    /\ [][ (pc = "chk_states" /\ StatesFull /\ NotNullViolated(import_data.states)) =>
             /\ states' = states
             /\ import_data'.states = {}
             /\ txn' = "idle"
             /\ pc' = "chk_countries"
       ]_vars
    /\ [][ (pc = "chk_countries" /\ CountriesFull /\ NotNullViolated(import_data.countries)) =>
             /\ countries' = countries
             /\ import_data'.countries = {}
             /\ txn' = "idle"
             /\ pc' = "read"
       ]_vars
    /\ [](\A i, j \in DOMAIN calls :
            (i < j /\ FailedThreshold(i) /\ calls[j].table = calls[i].table) =>
                \A t \in TuplesOf(calls[i]) \cap TuplesOf(calls[j]) :
                    \E k \in (calls[i].at + 1)..calls[j].at : TupleFor(calls[j].table, k) = t)
    /\ [](pc # "crashed" /\ (pc # "done" => ENABLED Next))

\* C20 witness: a threshold flush of states failed, a later call passed one
\* of its tuples again and stored it, and the run has promoted and exported.
C20_Witness ==
    /\ pc = "done"
    /\ Promotions = 1
    /\ Called("select_all")
    /\ \E i, j \in DOMAIN calls :
         /\ i < j
         /\ FailedThreshold(i)
         /\ calls[i].table = "states"
         /\ calls[j].table = "states"
         /\ calls[j].ok
         /\ calls[i].data \cap calls[j].data # {}

\* The tuples the successful insert_values calls of this run passed for a
\* table
PassedTo(table) ==
    UNION { TuplesOf(calls[i]) : i \in { j \in DOMAIN calls : calls[j].table = table /\ calls[j].ok } }

\* C21: a record that lacks a key ends the process at that record with the
\* tables, the call log and the connection as they were: no step follows,
\* neither the promotion nor the export has been called, every insert_values
\* call of the run is a threshold flush made at an earlier record and the
\* tables hold what those calls stored (the tuples in the buffers were never
\* passed); and cities is changed by no step but the promotion.
C21_MissingFieldAborts ==
    /\ [][ (pc = "read" /\ next < Len(input) /\ ~WellFormed(input[next + 1])) =>
             /\ pc' = "crashed"
             /\ Tables' = Tables
             /\ calls' = calls
             /\ trace' = trace
       ]_vars
    /\ [](pc = "crashed" =>
            /\ ~ENABLED NextMalformed
            /\ ~Called("insert_by_select_from")
            /\ ~Called("select_all")
            /\ next < Len(input)
            /\ ~WellFormed(input[next + 1])
            /\ \A i \in DOMAIN calls : calls[i].kind = "threshold" /\ calls[i].at <= next
            /\ cities_tmp = InsertSeq({}, Concat(CallsOn("cities_tmp")))
            /\ states \subseteq PassedTo("states")
            /\ countries \subseteq PassedTo("countries"))
    /\ [][cities' # cities => pc = "promote"]_vars

\* C21 witness: the process has ended at a record without country_name, after
\* a threshold flush stored rows; the states buffer still holds the tuple of
\* that record, and cities holds the row it held before the run.
C21_Witness ==
    /\ pc = "crashed"
    /\ calls # <<>>
    /\ cities_tmp # {}
    /\ states # {}
    /\ import_data.states # {}
    /\ cities = {PriorCity}

\* The number of tuples in each of the three buffers
BufferSizes ==
    [cities |-> Len(import_data.cities),
     states |-> Cardinality(import_data.states),
     countries |-> Cardinality(import_data.countries)]

\* C22: in every state each buffer holds at most buff_size tuples, and fewer
\* than buff_size whenever the next record is about to be read; and no step
\* makes a buffer grow by more than one tuple.
C22_BufferBound ==
    /\ [](\A b \in DOMAIN BufferSizes : BufferSizes[b] <= buff_size)
    /\ [](pc = "read" => \A b \in DOMAIN BufferSizes : BufferSizes[b] < buff_size)
    /\ [][\A b \in DOMAIN BufferSizes : BufferSizes'[b] <= BufferSizes[b] + 1]_vars

\* C22 witness: with the largest threshold the states buffer has just
\* reached it, while the countries buffer, counted on its own, has not.
C22_Witness ==
    /\ pc = "chk_states"
    /\ buff_size = MaxBuff
    /\ BufferSizes.states = buff_size
    /\ BufferSizes.countries < buff_size
    /\ BufferSizes.countries > 0

\* C23 as stated: a call of move_data_from_tmp_table adds every staged row
\* whose id is not in cities or leaves cities unchanged, and it leaves cities
\* unchanged whenever some row of cities_tmp references a state or country
\* that is not stored.
C23_AllOrNothingAsStated ==
    [][ Promotions' = Promotions + 1 =>
          /\ cities' = cities \cup Promotable \/ cities' = cities
          /\ (\E r \in cities_tmp : ~ForeignKeysHold(r)) => cities' = cities
      ]_vars

\* C23 amended: a call of move_data_from_tmp_table adds every staged row
\* whose id is not in cities or leaves cities unchanged; it leaves cities
\* unchanged whenever one of those rows (a staged row whose id is not in
\* cities) references a state or country that is not stored, and adds them
\* all otherwise.  A staged row whose id is already in cities is skipped
\* before its references are looked at.
C23_AllOrNothing ==
    [][ Promotions' = Promotions + 1 =>
          /\ cities' = cities \cup Promotable \/ cities' = cities
          /\ (\E r \in Promotable : ~ForeignKeysHold(r)) => cities' = cities
          /\ (\A r \in Promotable : ForeignKeysHold(r)) => cities' = cities \cup Promotable
      ]_vars

\* C23 witness: the promotion has failed and has left behind, next to the
\* staged row with the missing reference, a staged row that satisfies the
\* foreign keys and whose id is not in cities.
C23_Witness ==
    /\ pc = "export"
    /\ Failed("insert_by_select_from")
    /\ \E r, q \in cities_tmp :
         /\ r[1] \notin Ids(cities) /\ ForeignKeysHold(r)
         /\ q[1] \notin Ids(cities) /\ ~ForeignKeysHold(q)

====
